---- MODULE Spec2Model ----
(***************************************************************************)
(* Model of src/tree/objectpath.rs: Interface, IfaceCache, ObjectPath,     *)
(* Tree and TreeServer of the dbus tree module.                            *)
(***************************************************************************)
EXTENDS Integers, Sequences, FiniteSets, TLC

\* ------------------------------------------------------------------ bounds
\* Number of concurrently running builder threads (callers of IfaceCache::get).
NumThreads == 2
\* Number of builder calls (introspectable / add) made on one ObjectPath.
MaxOps == 2
\* Number of items the TreeServer pulls from the wrapped iterator.
MaxEvents == 2
\* Number of set_registered calls made in one behaviour.
MaxCalls == 2

\* ------------------------------------------------------------ basic values
NoVal == "NoVal"
Threads == 1..NumThreads
NoThread == 0

\* Object paths are strings; a string is modelled as its sequence of characters.
PathA   == <<"/", "a">>
PathAB  == <<"/", "a", "/", "b">>
PathAb  == <<"/", "a", "b">>
Paths == {PathA, PathAB, PathAb}

\* Byte order of the characters that occur in the paths ('/' = 0x2f < 'a' < 'b').
CharOrd(c) == CASE c = "/" -> 47 [] c = "a" -> 97 [] c = "b" -> 98

\* Ord of Path: byte-wise lexicographic comparison of the strings.
PathLess(p, q) ==
    \E i \in 1..(Len(p) + 1) :
        /\ \A j \in 1..(i - 1) : j <= Len(q) /\ p[j] = q[j]
        /\ \/ i = Len(p) + 1 /\ Len(q) >= i
           \/ i <= Len(p) /\ i <= Len(q) /\ CharOrd(p[i]) < CharOrd(q[i])

\* Iteration order of an ArcMap (a BTreeMap) keyed by paths: ascending keys.
RECURSIVE SortedKeys(_)
SortedKeys(S) ==
    IF S = {} THEN <<>>
    ELSE LET least == CHOOSE p \in S : \A q \in S \ {p} : PathLess(p, q)
         IN  <<least>> \o SortedKeys(S \ {least})

IntrospectableName == "org.freedesktop.DBus.Introspectable"
PropertiesName == "org.freedesktop.DBus.Properties"

\* An empty ArcMap.
EmptyMap == [x \in {} |-> NoVal]

\* ArcMap::insert: the entry under the key is created or replaced.
MapInsert(m, k, v) == [x \in (DOMAIN m) \cup {k} |-> IF x = k THEN v ELSE m[x]]

\* ArcMap::remove.
MapRemove(m, k) == [x \in (DOMAIN m) \ {k} |-> m[x]]

VARIABLES
    cache,       \* IfaceCache.0: interface name -> shared Interface
    mutex,       \* holder of the IfaceCache mutex, or NoThread
    nextId,      \* next Arc allocation (identity of an Arc<Interface>)
    builds,      \* number of runs of the build closure, per interface name
    tpc,         \* position of each builder thread
    tnode,       \* the ObjectPath value each builder thread owns
    tctx,        \* the pending call of each builder thread
    tree,        \* Tree.paths: path -> ObjectPath
    registered,  \* object paths registered with the Connection
    spc,         \* position of the set_registered call
    sarg,        \* argument b of the set_registered call
    skeys,       \* paths.keys() still to be visited by the call
    regd_paths,  \* local regd_paths of the call
    serr,        \* error of the failing registration
    sresult,     \* return value of the last set_registered call
    connlog,     \* calls made on the Connection by the last set_registered call
    ncalls,      \* number of set_registered calls made
    prev,        \* the set_registered(true) call that failed last, if none came after
    nops,        \* number of builder calls (introspectable, add) made
    hmsg,        \* the Message given to the last Tree::handle call, if any
    hnode,       \* what ObjectPath::handle returned within that call, if called
    hcalled,     \* the method handlers invoked within that call
    hused,       \* the property getters and setters invoked within that call
    hret,        \* return value of that call
    srv,         \* whether a TreeServer made by Tree::run exists
    npulled,     \* number of items the TreeServer has pulled from its iterator
    slog,        \* what the TreeServer did: pull, handle, send and yield, in order
    query        \* the last call of Tree::children or ObjectPath::introspect, if any

buildVars == <<cache, mutex, nextId, builds, tpc, tnode, tctx, nops>>
regVars == <<registered, spc, sarg, skeys, regd_paths, serr, sresult, connlog, ncalls, prev>>
handleVars == <<hmsg, hnode, hcalled, hused, hret, query>>
serverVars == <<srv, npulled, slog>>
vars == <<cache, mutex, nextId, builds, tpc, tnode, tctx, nops, tree,
          registered, spc, sarg, skeys, regd_paths, serr, sresult, connlog, ncalls, prev,
          hmsg, hnode, hcalled, hused, hret, srv, npulled, slog, query>>

\* ---------------------------------------------------------------- Interface
\* new_interface: an Interface with the name and no members.
new_interface(t) ==
    [name |-> t, methods |-> EmptyMap, properties |-> EmptyMap, signals |-> {},
     anns |-> EmptyMap]

\* Interface::add_m: the method is inserted under its name.
add_m(i, member, handler) == [i EXCEPT !.methods = MapInsert(@, member, handler)]

\* Interface::add_p: the property is inserted under its name.
add_p(i, prop, access) == [i EXCEPT !.properties = MapInsert(@, prop, access)]

\* Interface::add_s: the signal is inserted under its name.
add_s(i, sig) == [i EXCEPT !.signals = @ \cup {sig}]

\* Interface::annotate: the annotation is inserted under its name.
annotate(i, name, value) == [i EXCEPT !.anns = MapInsert(@, name, value)]

\* Interface::deprecated.
deprecated(i) == annotate(i, "org.freedesktop.DBus.Deprecated", "true")

\* Interfaces an application builds: the interface of test_introspection, an
\* interface without properties, and one named like the properties interface.
EchoIface ==
    add_s(add_p(add_p(add_p(add_m(new_interface("com.example.echo"), "Echo", "User"),
                            "EchoCount", "read"), "Volume", "readwrite"),
                "Secret", "write"), "Echoed")
PlainIface == add_m(new_interface("com.example.plain"), "Ping", "User")
ShadowIface == add_p(new_interface(PropertiesName), "Version", "read")
UserIfaces == {EchoIface, PlainIface, ShadowIface}

\* A deprecated interface with a method, a property and a signal.
LegacyIface ==
    deprecated(add_s(add_p(add_m(new_interface("com.example.legacy"), "Echo", "User"),
                           "Volume", "readwrite"), "Echoed"))

\* Arc::new: the shared handle of an Interface; id is the identity of the allocation.
ArcNew(i, id) ==
    [name |-> i.name, methods |-> i.methods, properties |-> i.properties,
     signals |-> i.signals, anns |-> i.anns, id |-> id]

\* The build closures ObjectPath passes to IfaceCache::get.
BuildClosure(name, i) ==
    IF name = IntrospectableName
    THEN add_m(i, "Introspect", "Introspect")
    ELSE add_m(add_m(add_m(i, "Get", "Get"), "GetAll", "GetAll"), "Set", "Set")

\* --------------------------------------------------------------- IfaceCache
\* self.0.lock(): the mutex is taken when no thread holds it.
MutexAlwaysAvailable == TRUE
MutexAvailable == mutex = NoThread

\* m.entry(s2): whether the entry is occupied.
EntryNeverOccupied(name) == FALSE
EntryOccupied(name) == name \in DOMAIN cache

\* IfaceCache::get, let mut m = self.0.lock().unwrap().
CacheLock(t) ==
    /\ tpc[t] = "get_lock"
    /\ MutexAvailable
    /\ mutex' = t
    /\ tpc' = [tpc EXCEPT ![t] = "get_entry"]
    /\ UNCHANGED <<cache, nextId, builds, tnode, tctx, nops, tree>>
    /\ UNCHANGED <<regVars, handleVars, serverVars>>

\* IfaceCache::get, m.entry(s2): an occupied entry is the result.
CacheEntry(t) ==
    /\ tpc[t] = "get_entry"
    /\ IF EntryOccupied(tctx[t].get)
       THEN /\ tctx' = [tctx EXCEPT ![t].z = cache[tctx[t].get]]
            /\ tpc' = [tpc EXCEPT ![t] = "get_return"]
       ELSE /\ tpc' = [tpc EXCEPT ![t] = "get_build"]
            /\ UNCHANGED tctx
    /\ UNCHANGED <<cache, mutex, nextId, builds, tnode, nops, tree>>
    /\ UNCHANGED <<regVars, handleVars, serverVars>>

\* IfaceCache::get, or_insert_with: the closure builds the Interface, which is
\* inserted into the vacant entry.
CacheBuild(t) ==
    /\ tpc[t] = "get_build"
    /\ LET name == tctx[t].get
           z == ArcNew(BuildClosure(name, new_interface(name)), nextId)
       IN  /\ cache' = MapInsert(cache, name, z)
           /\ tctx' = [tctx EXCEPT ![t].z = z]
           /\ builds' = [builds EXCEPT ![name] = @ + 1]
    /\ nextId' = nextId + 1
    /\ tpc' = [tpc EXCEPT ![t] = "get_return"]
    /\ UNCHANGED <<mutex, tnode, nops, tree>>
    /\ UNCHANGED <<regVars, handleVars, serverVars>>

\* IfaceCache::get returns the clone of the Arc; the guard is dropped.
CacheReturn(t) ==
    /\ tpc[t] = "get_return"
    /\ mutex' = IF mutex = t THEN NoThread ELSE mutex
    /\ tpc' = [tpc EXCEPT ![t] = "finish"]
    /\ UNCHANGED <<cache, nextId, builds, tnode, tctx, nops, tree>>
    /\ UNCHANGED <<regVars, handleVars, serverVars>>

\* --------------------------------------------------------------- ObjectPath
\* new_objectpath: an ObjectPath with no interfaces.
new_objectpath(n) == [name |-> n, ifaces |-> EmptyMap]

\* self.ifaces.insert(m.name.clone(), m).
InsertIface(o, m) == [o EXCEPT !.ifaces = MapInsert(@, m.name, m)]

\* ObjectPath::add, if !m.properties.is_empty() { self.add_property_handler(); }
NeedsPropertyHandler(m) == DOMAIN m.properties # {}

\* ObjectPath::add_property_handler, if self.ifaces.contains_key(&ifname) { return }
HasPropertyHandler(o) == PropertiesName \in DOMAIN o.ifaces

\* A thread creates an ObjectPath it then owns.
NewObjectPath(t, p) ==
    /\ tpc[t] = "none"
    /\ tpc' = [tpc EXCEPT ![t] = "ready"]
    /\ tnode' = [tnode EXCEPT ![t] = new_objectpath(p)]
    /\ UNCHANGED <<cache, mutex, nextId, builds, tctx, nops, tree>>
    /\ UNCHANGED <<regVars, handleVars, serverVars>>

\* ObjectPath::introspectable: the call of self.ifacecache.get.
Introspectable(t) ==
    /\ tpc[t] = "ready"
    /\ nops < MaxOps
    /\ nops' = nops + 1
    /\ tctx' = [tctx EXCEPT ![t] =
                   [get |-> IntrospectableName, pending |-> <<>>, z |-> NoVal]]
    /\ tpc' = [tpc EXCEPT ![t] = "get_lock"]
    /\ UNCHANGED <<cache, mutex, nextId, builds, tnode, tree>>
    /\ UNCHANGED <<regVars, handleVars, serverVars>>

\* ObjectPath::add of an Interface the application built: the Interface is inserted
\* at once, or after add_property_handler has fetched the properties interface.
Add(t, u) ==
    /\ tpc[t] = "ready"
    /\ nops < MaxOps
    /\ nops' = nops + 1
    /\ nextId' = nextId + 1
    /\ LET m == ArcNew(u, nextId) IN
       IF NeedsPropertyHandler(m) /\ ~HasPropertyHandler(tnode[t])
       THEN /\ tctx' = [tctx EXCEPT ![t] =
                           [get |-> PropertiesName, pending |-> <<m>>, z |-> NoVal]]
            /\ tpc' = [tpc EXCEPT ![t] = "get_lock"]
            /\ UNCHANGED tnode
       ELSE /\ tnode' = [tnode EXCEPT ![t] = InsertIface(@, m)]
            /\ UNCHANGED <<tctx, tpc>>
    /\ UNCHANGED <<cache, mutex, builds, tree>>
    /\ UNCHANGED <<regVars, handleVars, serverVars>>

\* The rest of the builder call once IfaceCache::get has returned z:
\* introspectable runs self.add(z); add_property_handler inserts z, and add then
\* inserts the Interface it was called with.
Finish(t) ==
    /\ tpc[t] = "finish"
    /\ LET z == tctx[t].z
           pending == tctx[t].pending
       IN  tnode' = [tnode EXCEPT ![t] =
                        IF pending = <<>> THEN InsertIface(@, z)
                        ELSE InsertIface(InsertIface(@, z), pending[1])]
    /\ tpc' = [tpc EXCEPT ![t] = "ready"]
    /\ tctx' = [tctx EXCEPT ![t] = NoVal]
    /\ UNCHANGED <<cache, mutex, nextId, builds, nops, tree>>
    /\ UNCHANGED <<regVars, handleVars, serverVars>>

\* --------------------------------------------------------------------- Tree
\* No call borrows the tree: Tree::add (by value) and Tree::remove (&mut) may run.
TreeUnborrowed == spc = "idle" /\ srv = "none"

\* Tree::add: the ObjectPath is inserted under its name.
TreeAdd(t) ==
    /\ TreeUnborrowed
    /\ tpc[t] = "ready"
    /\ tree' = MapInsert(tree, tnode[t].name, tnode[t])
    /\ tpc' = [tpc EXCEPT ![t] = "none"]
    /\ tnode' = [tnode EXCEPT ![t] = NoVal]
    /\ UNCHANGED <<cache, mutex, nextId, builds, tctx, nops>>
    /\ UNCHANGED <<regVars, handleVars, serverVars>>

\* Tree::remove is self.paths.remove(p) and no more: the Connection is not called.
UnregisteredOnRemove(regd, p) == regd \ {p}
RegisteredAfterRemove(regd, p) == regd

\* Tree::remove: the entry under the path, if any, is removed.
TreeRemove(p) ==
    /\ TreeUnborrowed
    /\ tree' = MapRemove(tree, p)
    /\ registered' = RegisteredAfterRemove(registered, p)
    /\ UNCHANGED <<spc, sarg, skeys, regd_paths, serr, sresult, connlog, ncalls, prev>>
    /\ UNCHANGED <<buildVars, handleVars, serverVars>>

\* ------------------------------------------------------------- Connection
\* Connection::register_object_path: a path already registered is refused; any
\* other registration succeeds or fails as the bus decides.
RegisterOutcomes(p) ==
    IF p \in registered
    THEN {[ok |-> FALSE, err |-> [name |-> "ObjectPathInUse", path |-> p]]}
    ELSE {[ok |-> TRUE, err |-> NoVal],
          [ok |-> FALSE, err |-> [name |-> "Failed", path |-> p]]}

\* Connection::unregister_object_path: the path is no longer registered.
Unregister(regd, p) == regd \ {p}

\* Whether an unregistration succeeds: the bus fails it for a path it does not hold.
UnregisterOutcome(regd, p) == [ok |-> p \in regd]

\* ------------------------------------------------------- Tree::set_registered
\* Vec::pop of the rollback loop: the last element pushed.
PopIndexFront(v) == 1
PopIndex(v) == Len(v)

\* while let Some(rp) = regd_paths.pop(): the loop ends when the Vec is empty.
RollbackDoneAtOnce(v) == TRUE
RollbackDone(v) == v = <<>>

\* for p in self.paths.keys() with b = false: the loop goes on to the next key
\* whatever the unregistration did.
DisableStopsOnFailure(keys, r) == IF r.ok THEN Tail(keys) ELSE <<>>
DisableNextKeys(keys, r) == Tail(keys)

\* let mut regd_paths = Vec::new(); for p in self.paths.keys() ...
SetRegisteredCall(b) ==
    /\ spc = "idle"
    /\ ncalls < MaxCalls
    /\ spc' = "loop"
    /\ sarg' = b
    /\ skeys' = SortedKeys(DOMAIN tree)
    /\ regd_paths' = <<>>
    /\ serr' = NoVal
    /\ sresult' = NoVal
    /\ connlog' = <<>>
    /\ ncalls' = ncalls + 1
    /\ UNCHANGED <<registered, prev, tree>>
    /\ UNCHANGED <<buildVars, handleVars, serverVars>>

\* Ok(()) => regd_paths.push(p.clone())
ForgetRegistered(v, p) == v
PushRegistered(v, p) == Append(v, p)

\* One iteration of the for loop with b = true.
SetRegisteredRegister ==
    /\ spc = "loop" /\ sarg /\ skeys # <<>>
    /\ LET p == Head(skeys) IN
       \E r \in RegisterOutcomes(p) :
          /\ connlog' = Append(connlog, [op |-> "register", path |-> p, ret |-> r])
          /\ IF r.ok
             THEN /\ registered' = registered \cup {p}
                  /\ regd_paths' = PushRegistered(regd_paths, p)
                  /\ skeys' = Tail(skeys)
                  /\ UNCHANGED <<spc, serr>>
             ELSE /\ spc' = "rollback"
                  /\ serr' = r.err
                  /\ UNCHANGED <<registered, regd_paths, skeys>>
    /\ UNCHANGED <<sarg, sresult, ncalls, prev, tree>>
    /\ UNCHANGED <<buildVars, handleVars, serverVars>>

\* One iteration of the for loop with b = false.
SetRegisteredUnregister ==
    /\ spc = "loop" /\ ~sarg /\ skeys # <<>>
    /\ LET p == Head(skeys)
           r == UnregisterOutcome(registered, p)
       IN  /\ connlog' = Append(connlog, [op |-> "unregister", path |-> p, ret |-> r])
           /\ registered' = Unregister(registered, p)
           /\ skeys' = DisableNextKeys(skeys, r)
    /\ UNCHANGED <<spc, sarg, regd_paths, serr, sresult, ncalls, prev, tree>>
    /\ UNCHANGED <<buildVars, handleVars, serverVars>>

\* One iteration of while let Some(rp) = regd_paths.pop().
SetRegisteredRollback ==
    /\ spc = "rollback" /\ ~RollbackDone(regd_paths)
    /\ LET i == PopIndex(regd_paths)
           rp == regd_paths[i]
       IN  /\ connlog' = Append(connlog, [op |-> "unregister", path |-> rp, ret |-> NoVal])
           /\ registered' = Unregister(registered, rp)
           /\ regd_paths' = [j \in 1..(Len(regd_paths) - 1) |->
                                IF j < i THEN regd_paths[j] ELSE regd_paths[j + 1]]
    /\ UNCHANGED <<spc, sarg, skeys, serr, sresult, ncalls, prev, tree>>
    /\ UNCHANGED <<buildVars, handleVars, serverVars>>

\* return Err(e), once regd_paths is drained.
SetRegisteredReturnErr ==
    /\ spc = "rollback" /\ RollbackDone(regd_paths)
    /\ spc' = "returned"
    /\ sresult' = [ok |-> FALSE, err |-> serr]
    /\ UNCHANGED <<registered, sarg, skeys, regd_paths, serr, connlog, ncalls, prev, tree>>
    /\ UNCHANGED <<buildVars, handleVars, serverVars>>

\* Ok(()), once the for loop is through.
SetRegisteredReturnOk ==
    /\ spc = "loop" /\ skeys = <<>>
    /\ spc' = "returned"
    /\ sresult' = [ok |-> TRUE, err |-> NoVal]
    /\ UNCHANGED <<registered, sarg, skeys, regd_paths, serr, connlog, ncalls, prev, tree>>
    /\ UNCHANGED <<buildVars, handleVars, serverVars>>

\* The caller takes the result; the borrow of the tree ends. A failed
\* set_registered(true) call is remembered until the next call has returned.
SetRegisteredDone ==
    /\ spc = "returned"
    /\ spc' = "idle"
    /\ prev' = IF sarg /\ ~sresult.ok
               THEN <<[keys |-> DOMAIN tree, log |-> connlog, regd |-> registered]>>
               ELSE <<>>
    /\ UNCHANGED <<registered, sarg, skeys, regd_paths, serr, sresult, connlog, ncalls, tree>>
    /\ UNCHANGED <<buildVars, handleVars, serverVars>>

\* ------------------------------------------------------------------ Message
\* An Option is modelled as a sequence of length at most one.
None == <<>>
Some(x) == <<x>>

\* Message::new_method_call and the other incoming messages.
Message(mtype, path, iface, member, args) ==
    [mtype |-> mtype, path |-> path, iface |-> iface, member |-> member, args |-> args]

\* Message::method_return: the reply to a method call, with the appended body.
method_return(m, body) == [mtype |-> "MethodReturn", reply_to |-> m, body |-> body]

\* Message::error: the error reply to a method call.
error_reply(m, errname, description) ==
    [mtype |-> "Error", reply_to |-> m, errname |-> errname, body |-> <<description>>]

\* A signal a handler emits.
signal_from(m) == [mtype |-> "Signal", cause |-> m]

\* Message::get1 and get2: the argument at a position, if the message has it.
GetArg(m, n) == IF Len(m.args) >= n THEN Some(m.args[n]) ELSE None

\* MethodResult: Ok(messages) or Err(MethodErr).
Ok(v) == [ok |-> TRUE, msgs |-> v, err |-> None]
Err(e) == [ok |-> FALSE, msgs |-> <<>>, err |-> Some(e)]

\* MethodErr and its constructors.
MethodErr(kind, detail) == [kind |-> kind, detail |-> detail]
no_interface(a) == MethodErr("NoSuchInterface", a)
no_method(a) == MethodErr("NoSuchMethod", a)
no_property(a) == MethodErr("NoSuchProperty", a)
invalid_arg(a) == MethodErr("InvalidArgument", a)
not_readable(a) == MethodErr("PropertyNotReadable", a)
not_writable(a) == MethodErr("PropertyNotWritable", a)
failed(a) == MethodErr("Failed", a)

\* What the closures of the application do when they are called.
Envs == {"ok", "ok_signal", "ok_empty", "fail"}

\* Method::call of a method of the application.
UserCall(m, env) ==
    CASE env = "ok" -> Ok(<<method_return(m, <<>>)>>)
      [] env = "ok_signal" -> Ok(<<signal_from(m), method_return(m, <<>>)>>)
      [] env = "ok_empty" -> Ok(<<>>)
      [] env = "fail" -> Err(failed("handler"))

\* Property::can_get.
can_get(access, pname) == IF access = "write" THEN Err(not_readable(pname)) ELSE Ok(<<>>)

\* Property::get_as_variant: the value the getter appends, as a variant.
get_as_variant(iname, pname, env) ==
    IF env = "fail" THEN Err(failed("getter"))
    ELSE Ok(<<[variant |-> <<iname, pname>>]>>)

\* Property::can_set: the access, then the variant argument.
can_set(access, pname, value) ==
    IF access = "read" THEN Err(not_writable(pname))
    ELSE IF value = None THEN Err(invalid_arg("2"))
    ELSE Ok(<<>>)

\* Property::set_as_variant: the messages the setter returns.
set_as_variant(m, env) ==
    CASE env = "fail" -> Err(failed("setter"))
      [] env = "ok_signal" -> Ok(<<signal_from(m)>>)
      [] OTHER -> Ok(<<>>)

\* IfaceName::from_slice: whether the string is an interface name.
ValidIfaceName(str) == str # ""

\* Order of the names that are keys of an ArcMap (byte order of the strings).
NameRank(n) ==
    CASE n = "Echo" -> 1
      [] n = "EchoCount" -> 2
      [] n = "Echoed" -> 3
      [] n = "Get" -> 4
      [] n = "GetAll" -> 5
      [] n = "Introspect" -> 6
      [] n = "Ping" -> 7
      [] n = "Secret" -> 8
      [] n = "Set" -> 9
      [] n = "Version" -> 10
      [] n = "Volume" -> 11
      [] n = "com.example.echo" -> 12
      [] n = "com.example.legacy" -> 13
      [] n = "com.example.plain" -> 14
      [] n = "org.freedesktop.DBus.Deprecated" -> 15
      [] n = IntrospectableName -> 16
      [] n = PropertiesName -> 17

RECURSIVE SortedNames(_)
SortedNames(S) ==
    IF S = {} THEN <<>>
    ELSE LET least == CHOOSE n \in S : \A x \in S : NameRank(n) <= NameRank(x)
         IN  <<least>> \o SortedNames(S \ {least})

\* ------------------------------------------------------------ Tree::children
\* k.starts_with(parent)
StartsWith(k, parent) ==
    Len(k) >= Len(parent) /\ \A j \in 1..Len(parent) : k[j] = parent[j]

\* One element of the filter_map of Tree::children.
IsChildByPrefix(k, parent, direct_only) ==
    /\ StartsWith(k, parent) /\ Len(k) > Len(parent)
    /\ ~(direct_only /\ \E j \in (Len(parent) + 2)..Len(k) : k[j] = "/")
IsChild(k, parent, direct_only) ==
    LET plen == Len(parent) + 1 IN
    IF ~StartsWith(k, parent) \/ Len(k) <= plen \/ k[plen] # "/" THEN FALSE
    ELSE LET child == SubSeq(k, plen + 1, Len(k)) IN
         ~(direct_only /\ \E j \in 1..Len(child) : child[j] = "/")

\* Tree::children: the nodes of the tree that pass the filter, in iteration order.
children(t, o, direct_only) ==
    SelectSeq(SortedKeys(DOMAIN t), LAMBDA k : IsChild(k, o.name, direct_only))

\* ------------------------------------------------- ObjectPath: the handlers
\* introspect_map: one element for each entry of the map, in the order of the
\* keys; c gives the xml_contents of each entry and tag its xml_name.
introspect_map(c, tag) ==
    LET Elements(names) ==
            [j \in 1..Len(names) |->
                [tag |-> tag, name |-> names[j], contents |-> c[names[j]]]]
    IN  Elements(SortedNames(DOMAIN c))

\* Annotations::introspect: one annotation element for each annotation.
anns_introspect(anns) ==
    LET Elements(names) ==
            [j \in 1..Len(names) |->
                [tag |-> "annotation", name |-> names[j], value |-> anns[names[j]]]]
    IN  Elements(SortedNames(DOMAIN anns))

\* Interface::xml_contents: the methods, the properties, the signals, the
\* annotations. The contents of a method, a property and a signal are left out.
xml_contents(i) ==
    introspect_map([n \in DOMAIN i.methods |-> <<>>], "method")
    \o introspect_map([n \in DOMAIN i.properties |-> <<>>], "property")
    \o introspect_map([n \in i.signals |-> <<>>], "signal")
    \o anns_introspect(i.anns)

\* The elements of childstr are appended after those of ifacestr.
ChildrenFirst(ifacestr, childstr) == childstr \o ifacestr
NodeContents(ifacestr, childstr) == ifacestr \o childstr

\* ObjectPath::introspect: the node element with the path of the node, holding the
\* elements of its interfaces and then one element for each direct child.
introspect(o, t) ==
    LET ifacestr == introspect_map([n \in DOMAIN o.ifaces |-> xml_contents(o.ifaces[n])],
                                   "interface")
        olen == Len(o.name) + 1
        Childstr(kids) ==
            [j \in 1..Len(kids) |->
                [tag |-> "node", name |-> SubSeq(kids[j], olen + 1, Len(kids[j])),
                 contents |-> <<>>]]
    IN  [tag |-> "node", name |-> o.name,
         contents |-> NodeContents(ifacestr, Childstr(children(t, o, TRUE)))]

\* ObjectPath::get_iface.
get_iface(o, i) ==
    IF i = None THEN [ok |-> FALSE, err |-> invalid_arg("0")]
    ELSE IF ~ValidIfaceName(i[1]) THEN [ok |-> FALSE, err |-> invalid_arg("name")]
    ELSE IF i[1] \notin DOMAIN o.ifaces THEN [ok |-> FALSE, err |-> no_interface(i[1])]
    ELSE [ok |-> TRUE, iface |-> o.ifaces[i[1]]]

\* iface.properties.get(&String::from(prop_name))
FindPropertyOrDefault(iface, p) ==
    IF p \in DOMAIN iface.properties THEN Some(iface.properties[p]) ELSE Some("readwrite")
FindProperty(iface, p) ==
    IF p \in DOMAIN iface.properties THEN Some(iface.properties[p]) ELSE None

\* What a handler of the properties interface returns, with the property handlers
\* (getters and setters) it has invoked and what each of them returned.
Returns(res, used) == [res |-> res, used |-> used]

\* A getter or a setter of a property was invoked and returned ret.
Invoked(op, iface, pname, ret) == [op |-> op, iface |-> iface.name, prop |-> pname, ret |-> ret]

\* ObjectPath::prop_get.
prop_get(o, m, env) ==
    LET Got(iface, pname, gv) ==
            Returns(IF gv.ok THEN Ok(<<method_return(m, gv.msgs)>>) ELSE gv,
                    <<Invoked("get", iface, pname, gv)>>)
        Checked(iface, pname, cg) ==
            IF ~cg.ok THEN Returns(cg, <<>>)
            ELSE Got(iface, pname, get_as_variant(iface.name, pname, env))
        WithProp(iface, pname, prop) ==
            IF prop = None THEN Returns(Err(no_property(pname)), <<>>)
            ELSE Checked(iface, pname, can_get(prop[1], pname))
        WithIface(gi, p) ==
            IF ~gi.ok THEN Returns(Err(gi.err), <<>>)
            ELSE IF p = None THEN Returns(Err(invalid_arg("1")), <<>>)
            ELSE WithProp(gi.iface, p[1], FindProperty(gi.iface, p[1]))
    IN  WithIface(get_iface(o, GetArg(m, 1)), GetArg(m, 2))

\* prop_append_dict: one entry for each property that can be read; the getters
\* are invoked in the order of the names, up to the first that fails.
prop_append_dict(props, iface, env) ==
    LET Entries(names, got) ==
            IF names # <<>> /\ ~got[1].ok
            THEN Returns(got[1], <<Invoked("get", iface, names[1], got[1])>>)
            ELSE Returns(Ok(<<[dict |-> [j \in 1..Len(names) |->
                                           [key |-> names[j],
                                            variant |-> got[j].msgs[1].variant]]]>>),
                         [j \in 1..Len(names) |-> Invoked("get", iface, names[j], got[j])])
        Read(names) ==
            Entries(names, [j \in 1..Len(names) |->
                               get_as_variant(iface.name, names[j], env)])
    IN  Read(SortedNames({q \in DOMAIN props : can_get(props[q], q).ok}))

\* iface.properties.values(): the properties given to prop_append_dict.
DictNoProperties(iface) == EmptyMap
DictProperties(iface) == iface.properties

\* ObjectPath::prop_get_all.
prop_get_all(o, m, env) ==
    LET Reply(d) ==
            Returns(IF d.res.ok THEN Ok(<<method_return(m, d.res.msgs)>>) ELSE d.res, d.used)
        WithIface(gi) ==
            IF ~gi.ok THEN Returns(Err(gi.err), <<>>)
            ELSE Reply(prop_append_dict(DictProperties(gi.iface), gi.iface, env))
    IN  WithIface(get_iface(o, GetArg(m, 1)))

\* r.push(m.msg.method_return()): the reply comes after the messages of the setter.
ReplyFirst(r, reply) == <<reply>> \o r
PushReply(r, reply) == Append(r, reply)

\* ObjectPath::prop_set.
prop_set(o, m, env) ==
    LET Written(iface, pname, r) ==
            Returns(IF r.ok THEN Ok(PushReply(r.msgs, method_return(m, <<>>))) ELSE r,
                    <<Invoked("set", iface, pname, r)>>)
        Checked(iface, pname, cs) ==
            IF ~cs.ok THEN Returns(cs, <<>>)
            ELSE Written(iface, pname, set_as_variant(m, env))
        WithProp(iface, pname, prop) ==
            IF prop = None THEN Returns(Err(no_property(pname)), <<>>)
            ELSE Checked(iface, pname, can_set(prop[1], pname, GetArg(m, 3)))
        WithIface(gi, p) ==
            IF ~gi.ok THEN Returns(Err(gi.err), <<>>)
            ELSE IF p = None THEN Returns(Err(invalid_arg("1")), <<>>)
            ELSE WithProp(gi.iface, p[1], FindProperty(gi.iface, p[1]))
    IN  WithIface(get_iface(o, GetArg(m, 1)), GetArg(m, 2))

\* Method::call: the closure of the method is run.
Call(handler, o, m, t, env) ==
    CASE handler = "Introspect" ->
           Returns(Ok(<<method_return(m, <<introspect(o, t)>>)>>), <<>>)
      [] handler = "Get" -> prop_get(o, m, env)
      [] handler = "GetAll" -> prop_get_all(o, m, env)
      [] handler = "Set" -> prop_set(o, m, env)
      [] handler = "User" -> Returns(UserCall(m, env), <<>>)

\* ObjectPath::handle, m.interface().and_then(|i| self.ifaces.get(&i)).
FindIfaceOfMember(o, m) ==
    IF m.iface # None /\ m.iface[1] \in DOMAIN o.ifaces THEN Some(o.ifaces[m.iface[1]])
    ELSE IF m.member # None
            /\ \E n \in DOMAIN o.ifaces : m.member[1] \in DOMAIN o.ifaces[n].methods
    THEN Some(o.ifaces[CHOOSE n \in DOMAIN o.ifaces :
                          m.member[1] \in DOMAIN o.ifaces[n].methods])
    ELSE None
FindIface(o, m) ==
    IF m.iface # None /\ m.iface[1] \in DOMAIN o.ifaces THEN Some(o.ifaces[m.iface[1]])
    ELSE None

\* ObjectPath::handle, m.member().and_then(|me| i.methods.get(&me)).
FindMethod(i, m) ==
    IF m.member # None /\ m.member[1] \in DOMAIN i.methods THEN Some(i.methods[m.member[1]])
    ELSE None

\* MethodInfo { msg: m, tree: t, path: self, iface: i, method: me }: the path the
\* closure of the method works on is the node the message was dispatched to.
FirstNodeOfTree(o, t) == t[SortedKeys(DOMAIN t)[1]]
MethodInfoPath(o, t) == o

\* ObjectPath::handle: the MethodResult, the method handlers it has invoked and
\* the property handlers these have invoked.
ObjectPathHandle(o, m, t, env) ==
    LET Called(i, c) ==
            [res |-> c.res,
             called |-> <<[iface |-> i.name, member |-> m.member[1]]>>,
             used |-> c.used]
        WithMethod(i, me) ==
            IF me = None THEN [res |-> Err(no_method("")), called |-> <<>>, used |-> <<>>]
            ELSE Called(i, Call(me[1], MethodInfoPath(o, t), m, t, env))
        WithIface(i) ==
            IF i = None THEN [res |-> Err(no_interface("")), called |-> <<>>, used |-> <<>>]
            ELSE WithMethod(i[1], FindMethod(i[1], m))
    IN  WithIface(FindIface(o, m))

\* ------------------------------------------------------------- Tree::handle
\* m.msg_type() != MessageType::MethodCall
AnyMessageType(m) == TRUE
IsMethodCall(m) == m.mtype = "MethodCall"

\* unwrap_or_else: a MethodErr becomes the one error reply to the call.
NoErrorReply(m, e) == <<>>
ErrorReplies(m, e) == <<error_reply(m, e.kind, e.detail)>>

\* Tree::handle: the return value, with what ObjectPath::handle returned and invoked.
Handle(t, m, env) ==
    IF ~IsMethodCall(m) THEN [ret |-> None, node |-> None, called |-> <<>>, used |-> <<>>]
    ELSE IF m.path = None \/ m.path[1] \notin DOMAIN t
    THEN [ret |-> None, node |-> None, called |-> <<>>, used |-> <<>>]
    ELSE LET Replies(h) ==
                 [ret |-> Some(IF h.res.ok THEN h.res.msgs
                               ELSE ErrorReplies(m, h.res.err[1])),
                  node |-> Some(h.res), called |-> h.called, used |-> h.used]
         IN  Replies(ObjectPathHandle(t[m.path[1]], m, t, env))

\* The messages given to Tree::handle.
ArgLists ==
    {<<>>}
    \cup {<<i>> : i \in {"com.example.echo", "com.example.legacy", "com.example.none", ""}}
    \cup {<<i, q>> : i \in {"com.example.echo", "com.example.legacy", "com.example.none"},
                     q \in {"EchoCount", "Volume", "Secret", "Missing"}}
    \cup {<<"com.example.echo", q, "value">> : q \in {"EchoCount", "Volume", "Secret", "Missing"}}
Messages ==
    {Message(mtype, path, iface, member, args) :
        mtype \in {"MethodCall", "Signal"},
        path \in {None} \cup {Some(q) : q \in Paths},
        iface \in {None} \cup {Some(n) : n \in {"com.example.echo", "com.example.none",
                                                  IntrospectableName, PropertiesName}},
        member \in {None} \cup {Some(n) : n \in {"Echo", "Introspect", "Get", "GetAll",
                                                   "Set", "Missing"}},
        args \in ArgLists}

\* A call of Tree::handle.
TreeHandle(m, env) ==
    /\ hmsg = None
    /\ \E h \in {Handle(tree, m, env)} :
          /\ hmsg' = Some(m)
          /\ hnode' = h.node
          /\ hcalled' = h.called
          /\ hused' = h.used
          /\ hret' = h.ret
    /\ UNCHANGED <<buildVars, regVars, serverVars, tree, query>>

\* The caller has taken the return value of Tree::handle.
TreeHandleDone ==
    /\ hmsg # None
    /\ hmsg' = None
    /\ hnode' = None
    /\ hcalled' = <<>>
    /\ hused' = <<>>
    /\ hret' = None
    /\ UNCHANGED <<buildVars, regVars, serverVars, tree, query>>

\* --------------------------------------------------------------- TreeServer
\* ConnectionItem: a method call, a signal, or nothing to report.
MethodCallItem(m) == [kind |-> "MethodCall", msg |-> Some(m)]
SignalItem(m) == [kind |-> "Signal", msg |-> Some(m)]
NothingItem == [kind |-> "Nothing", msg |-> None]

\* The items the wrapped iterator gives: calls of a method of the application, of
\* an interface no node has and of a method of /a/b, a signal, and Nothing.
ServerItems ==
    {MethodCallItem(Message("MethodCall", Some(PathA), Some("com.example.echo"),
                            Some("Echo"), <<>>)),
     MethodCallItem(Message("MethodCall", Some(PathA), Some("com.example.none"),
                            Some("Echo"), <<>>)),
     MethodCallItem(Message("MethodCall", Some(PathAB), Some("com.example.plain"),
                            Some("Ping"), <<>>)),
     SignalItem(Message("Signal", Some(PathA), Some("com.example.echo"),
                        Some("Echoed"), <<>>)),
     NothingItem}

\* if let &Some(ConnectionItem::MethodCall(ref msg)) = &n
IsMethodCallItem(n) == n # None /\ n[1].kind = "MethodCall"

\* if let Some(v) = self.tree.handle(&msg): the replies are sent and the loop
\* continues.
NeverHandled(ret) == FALSE
Handled(ret) == ret # None

\* for m in v { let _ = self.conn.send(m); }: every reply is given to send, in the
\* order of the list, whatever the sends before it returned.
SendsUntilFailure(v, oks) ==
    LET failing == {j \in 1..Len(v) : j \notin oks}
        last == IF failing = {} THEN Len(v)
                ELSE CHOOSE j \in failing : \A x \in failing : j <= x
    IN  [j \in 1..last |-> [op |-> "send", msg |-> v[j], ok |-> j \in oks]]
Sends(v, oks) ==
    [j \in 1..Len(v) |-> [op |-> "send", msg |-> v[j], ok |-> j \in oks]]

\* Tree::run: the TreeServer borrows the tree and wraps the iterator.
ServerRun ==
    /\ srv = "none"
    /\ srv' = "running"
    /\ npulled' = 0
    /\ slog' = <<>>
    /\ UNCHANGED <<buildVars, regVars, handleVars, tree>>

\* One iteration of the loop of TreeServer::next: n is the item pulled (None at
\* the end of the iterator), oks the sends that succeed.
ServerNext(n, env) ==
    /\ srv = "running"
    /\ npulled < MaxEvents
    /\ npulled' = npulled + 1
    /\ LET pull == <<[op |-> "pull", item |-> n]>>
           yield == <<[op |-> "yield", item |-> n]>>
       IN  IF IsMethodCallItem(n)
           THEN \E ret \in {Handle(tree, n[1].msg[1], env).ret} :
                   LET handle == <<[op |-> "handle", ret |-> ret]>> IN
                   IF Handled(ret)
                   THEN \E oks \in SUBSET (1..Len(ret[1])) :
                           slog' = slog \o pull \o handle \o Sends(ret[1], oks)
                   ELSE slog' = slog \o pull \o handle \o yield
           ELSE slog' = slog \o pull \o yield
    /\ UNCHANGED <<buildVars, regVars, handleVars, srv, tree>>

\* The TreeServer is dropped; the borrow of the tree ends.
ServerDrop ==
    /\ srv = "running"
    /\ srv' = "none"
    /\ UNCHANGED <<buildVars, regVars, handleVars, npulled, slog, tree>>

\* ------------------------------------------ calls of children and introspect
\* A call of Tree::children for a node, which need not be a node of the tree.
QueryChildren(o, direct_only) ==
    /\ query = None
    /\ query' = Some([op |-> "children", node |-> o, direct_only |-> direct_only,
                      ret |-> children(tree, o, direct_only)])
    /\ UNCHANGED <<buildVars, regVars, serverVars, tree, hmsg, hnode, hcalled, hused, hret>>

\* A call of ObjectPath::introspect for a node and the tree, as test_introspection
\* makes it.
QueryIntrospect(o) ==
    /\ query = None
    /\ query' = Some([op |-> "introspect", node |-> o, ret |-> introspect(o, tree)])
    /\ UNCHANGED <<buildVars, regVars, serverVars, tree, hmsg, hnode, hcalled, hused, hret>>

\* The caller has taken the result.
QueryDone ==
    /\ query # None
    /\ query' = None
    /\ UNCHANGED <<buildVars, regVars, serverVars, tree, hmsg, hnode, hcalled, hused, hret>>

\* ----------------------------------------------------------- specifications
Init ==
    /\ cache = EmptyMap
    /\ mutex = NoThread
    /\ nextId = 1
    /\ builds = [n \in {IntrospectableName, PropertiesName} |-> 0]
    /\ tpc = [t \in Threads |-> "none"]
    /\ tnode = [t \in Threads |-> NoVal]
    /\ tctx = [t \in Threads |-> NoVal]
    /\ tree = EmptyMap
    /\ registered = {}
    /\ spc = "idle"
    /\ sarg = FALSE
    /\ skeys = <<>>
    /\ regd_paths = <<>>
    /\ serr = NoVal
    /\ sresult = NoVal
    /\ connlog = <<>>
    /\ ncalls = 0
    /\ prev = <<>>
    /\ nops = 0
    /\ hmsg = <<>>
    /\ hnode = <<>>
    /\ hcalled = <<>>
    /\ hused = <<>>
    /\ hret = <<>>
    /\ query = <<>>
    /\ srv = "none"
    /\ npulled = 0
    /\ slog = <<>>

\* Registration of a tree of paths with the connection.
NextReg ==
    \/ \E t \in Threads, p \in Paths : NewObjectPath(t, p)
    \/ \E t \in Threads : TreeAdd(t)
    \/ \E p \in Paths : TreeRemove(p)
    \/ \E b \in BOOLEAN : SetRegisteredCall(b)
    \/ SetRegisteredRegister
    \/ SetRegisteredUnregister
    \/ SetRegisteredRollback
    \/ SetRegisteredReturnErr
    \/ SetRegisteredReturnOk
    \/ SetRegisteredDone

SpecReg == Init /\ [][NextReg]_vars

\* Threads building ObjectPaths that share one IfaceCache.
NextBuild ==
    \/ \E t \in Threads, p \in Paths : NewObjectPath(t, p)
    \/ \E t \in Threads : Introspectable(t)
    \/ \E t \in Threads, u \in UserIfaces : Add(t, u)
    \/ \E t \in Threads : CacheLock(t)
    \/ \E t \in Threads : CacheEntry(t)
    \/ \E t \in Threads : CacheBuild(t)
    \/ \E t \in Threads : CacheReturn(t)
    \/ \E t \in Threads : Finish(t)

SpecBuild == Init /\ [][NextBuild]_vars

\* The nodes of the trees that are dispatched to, with the Arcs in the order of
\* their allocation: /a is made introspectable and is given the echo interface,
\* /a/b is made introspectable and is given the interface without properties and
\* the deprecated interface, /ab is given the echo interface and then an interface
\* named like the properties interface.
CachedIntrospectable ==
    ArcNew(BuildClosure(IntrospectableName, new_interface(IntrospectableName)), 1)
CachedProperties ==
    ArcNew(BuildClosure(PropertiesName, new_interface(PropertiesName)), 3)
BuiltNode(p) ==
    CASE p = PathA ->
           InsertIface(InsertIface(InsertIface(new_objectpath(p), CachedIntrospectable),
                                   CachedProperties), ArcNew(EchoIface, 2))
      [] p = PathAB ->
           InsertIface(InsertIface(InsertIface(InsertIface(new_objectpath(p),
                                                           CachedIntrospectable),
                                               ArcNew(PlainIface, 4)),
                                   CachedProperties), ArcNew(LegacyIface, 5))
      [] p = PathAb ->
           InsertIface(InsertIface(InsertIface(new_objectpath(p), CachedProperties),
                                   ArcNew(EchoIface, 6)), ArcNew(ShadowIface, 7))

\* The state once a tree of such nodes is built: the cache holds the two shared
\* interfaces and the builders are done.
InitBuilt ==
    /\ cache = MapInsert(MapInsert(EmptyMap, IntrospectableName, CachedIntrospectable),
                         PropertiesName, CachedProperties)
    /\ mutex = NoThread
    /\ nextId = 8
    /\ builds = [n \in {IntrospectableName, PropertiesName} |-> 1]
    /\ tpc = [t \in Threads |-> "none"]
    /\ tnode = [t \in Threads |-> NoVal]
    /\ tctx = [t \in Threads |-> NoVal]
    /\ nops = MaxOps
    /\ \E S \in SUBSET Paths : tree = [p \in S |-> BuiltNode(p)]
    /\ registered = {}
    /\ spc = "idle"
    /\ sarg = FALSE
    /\ skeys = <<>>
    /\ regd_paths = <<>>
    /\ serr = NoVal
    /\ sresult = NoVal
    /\ connlog = <<>>
    /\ ncalls = 0
    /\ prev = <<>>
    /\ hmsg = <<>>
    /\ hnode = <<>>
    /\ hcalled = <<>>
    /\ hused = <<>>
    /\ hret = <<>>
    /\ query = <<>>
    /\ srv = "none"
    /\ npulled = 0
    /\ slog = <<>>

\* The paths of the trees that children and introspect are called with: the root
\* and a grandchild of /a besides the paths above.
PathRoot == <<"/">>
PathABA == <<"/", "a", "/", "b", "/", "a">>
QueryPaths == Paths \cup {PathRoot, PathABA}

\* The nodes of these trees: the root is introspectable, /a/b/a has no interface.
QueryNode(p) ==
    IF p \in Paths THEN BuiltNode(p)
    ELSE IF p = PathRoot THEN InsertIface(new_objectpath(p), CachedIntrospectable)
    ELSE new_objectpath(p)

InitQuery ==
    /\ cache = MapInsert(MapInsert(EmptyMap, IntrospectableName, CachedIntrospectable),
                         PropertiesName, CachedProperties)
    /\ mutex = NoThread
    /\ nextId = 8
    /\ builds = [n \in {IntrospectableName, PropertiesName} |-> 1]
    /\ tpc = [t \in Threads |-> "none"]
    /\ tnode = [t \in Threads |-> NoVal]
    /\ tctx = [t \in Threads |-> NoVal]
    /\ nops = MaxOps
    /\ \E S \in SUBSET QueryPaths : tree = [p \in S |-> QueryNode(p)]
    /\ registered = {}
    /\ spc = "idle"
    /\ sarg = FALSE
    /\ skeys = <<>>
    /\ regd_paths = <<>>
    /\ serr = NoVal
    /\ sresult = NoVal
    /\ connlog = <<>>
    /\ ncalls = 0
    /\ prev = <<>>
    /\ hmsg = <<>>
    /\ hnode = <<>>
    /\ hcalled = <<>>
    /\ hused = <<>>
    /\ hret = <<>>
    /\ query = <<>>
    /\ srv = "none"
    /\ npulled = 0
    /\ slog = <<>>

\* Calls of Tree::children and ObjectPath::introspect with a tree.
NextQuery ==
    \/ \E p \in QueryPaths, d \in BOOLEAN : QueryChildren(QueryNode(p), d)
    \/ \E p \in QueryPaths : QueryIntrospect(QueryNode(p))
    \/ QueryDone

SpecQuery == InitQuery /\ [][NextQuery]_vars

\* Messages dispatched to a tree.
NextDispatch ==
    \/ hmsg = None /\ \E m \in Messages, env \in Envs : TreeHandle(m, env)
    \/ TreeHandleDone

SpecDispatch == InitBuilt /\ [][NextDispatch]_vars

\* A TreeServer run over the items of a connection.
NextServer ==
    \/ ServerRun
    \/ \E n \in {None} \cup {Some(i) : i \in ServerItems}, env \in Envs : ServerNext(n, env)
    \/ ServerDrop

SpecServer == InitBuilt /\ [][NextServer]_vars

\* ------------------------------------------------------- claims: registration
\* The set_registered(enable = true) call has returned.
EnableReturned == spc = "returned" /\ sarg

\* Position in connlog of the registration that failed.
FailedAt == CHOOSE k \in 1..Len(connlog) :
                connlog[k].op = "register" /\ ~connlog[k].ret.ok

\* Paths of the tree in iteration order.
TreeKeys == SortedKeys(DOMAIN tree)

\* C1: when register_path fails for the k-th path in tree iteration order, the call
\* has registered paths 1..k-1 in that order, then unregisters exactly these paths
\* in the reverse order, and returns the error of the failing registration.
C1_RollbackReverseOrder ==
    (EnableReturned /\ ~sresult.ok) =>
        /\ \E k \in 1..Len(connlog) : connlog[k].op = "register" /\ ~connlog[k].ret.ok
        /\ LET k == FailedAt IN
           /\ k <= Len(TreeKeys)
           /\ \A i \in 1..(k - 1) :
                 connlog[i] = [op |-> "register", path |-> TreeKeys[i],
                               ret |-> [ok |-> TRUE, err |-> NoVal]]
           /\ connlog[k].path = TreeKeys[k]
           /\ Len(connlog) = 2 * k - 1
           /\ \A j \in 1..(k - 1) :
                 connlog[k + j] = [op |-> "unregister", path |-> TreeKeys[k - j],
                                   ret |-> NoVal]
           /\ sresult.err = connlog[k].ret.err

\* C1 witness: the third path failed and two registrations were rolled back.
C1_Witness ==
    /\ EnableReturned /\ ~sresult.ok
    /\ Len(connlog) = 5
    /\ connlog[3].op = "register" /\ ~connlog[3].ret.ok

\* Paths registered by the call that has just returned.
RegisteredByCall ==
    {connlog[i].path : i \in {j \in 1..Len(connlog) :
                                 connlog[j].op = "register" /\ connlog[j].ret.ok}}

\* C2: when set_registered(enable = true) returns, either it returns Ok and every
\* path of the tree is registered, or it returns an error and no path registered by
\* this call is still registered.
C2_AllOrNothing ==
    EnableReturned =>
        IF sresult.ok
        THEN DOMAIN tree \subseteq registered
        ELSE RegisteredByCall \cap registered = {}

\* C2 witness: a failed call that had registered a path returns with it unregistered.
C2_Witness ==
    /\ EnableReturned /\ ~sresult.ok
    /\ RegisteredByCall # {}
    /\ RegisteredByCall \cap registered = {}

\* ---------------------------------------------------- claims: cache and nodes
BuiltinNames == {IntrospectableName, PropertiesName}

\* C7: under concurrent callers of IfaceCache::get for one name the build closure
\* runs at most once for that name, the thread that builds holds the lock under
\* which it saw the entry vacant, and every caller returns the one cached instance.
C7_AtMostOneBuild ==
    /\ \A n \in BuiltinNames : builds[n] <= 1
    /\ \A t \in Threads :
          tpc[t] = "get_build" => mutex = t /\ tctx[t].get \notin DOMAIN cache
    /\ \A t \in Threads :
          tpc[t] \in {"get_return", "finish"} =>
             /\ tctx[t].get \in DOMAIN cache
             /\ tctx[t].z = cache[tctx[t].get]

\* C7 witness: two callers of get for the same name have both returned, after one
\* build.
C7_Witness ==
    \E t1, t2 \in Threads :
        /\ t1 # t2
        /\ tpc[t1] = "finish" /\ tpc[t2] = "finish"
        /\ tctx[t1].get = tctx[t2].get
        /\ builds[tctx[t1].get] = 1
        /\ tctx[t1].z.id = tctx[t2].z.id

\* The ObjectPaths that exist: those owned by a thread and those of the tree.
HeldNodes ==
    {tnode[t] : t \in {x \in Threads : tpc[x] # "none"}} \cup {tree[p] : p \in DOMAIN tree}

\* The ObjectPaths on which no builder call is running.
CompleteNodes ==
    {tnode[t] : t \in {x \in Threads : tpc[x] = "ready"}} \cup {tree[p] : p \in DOMAIN tree}

\* The Interface was built by one of the closures given to IfaceCache::get.
BuiltByCache(d) == \E m \in DOMAIN d.methods : d.methods[m] # "User"

\* The node holds, under the name, an Interface it obtained from the cache.
Obtained(o, b) == b \in DOMAIN o.ifaces /\ BuiltByCache(o.ifaces[b])

\* C8: two nodes that obtained the introspection interface, or the properties
\* interface, from the same cache hold the same instance of it.
C8_SharedInstance ==
    \A o1, o2 \in HeldNodes : \A b \in BuiltinNames :
        (Obtained(o1, b) /\ Obtained(o2, b)) => o1.ifaces[b].id = o2.ifaces[b].id

\* C8 witness: the nodes of two threads both hold the cached properties interface
\* and both hold the cached introspection interface.
C8_Witness ==
    \E t1, t2 \in Threads :
        /\ t1 # t2 /\ tpc[t1] = "ready" /\ tpc[t2] = "ready"
        /\ \E b \in BuiltinNames :
              /\ Obtained(tnode[t1], b) /\ Obtained(tnode[t2], b)
              /\ tnode[t1].ifaces[b].id = tnode[t2].ifaces[b].id

\* The node owns an Interface with properties.
HasPropertyIface(o) == \E i \in DOMAIN o.ifaces : DOMAIN o.ifaces[i].properties # {}

\* C9: a node that owns an Interface with properties owns the standard properties
\* interface, with the methods Get, GetAll and Set, after every sequence of add and
\* introspectable calls.
C9_PropertiesInstalled ==
    \A o \in CompleteNodes :
        HasPropertyIface(o) =>
            /\ PropertiesName \in DOMAIN o.ifaces
            /\ {"Get", "GetAll", "Set"} \subseteq DOMAIN o.ifaces[PropertiesName].methods

\* C10: once a node owns an Interface with properties, a further add of an
\* Interface with properties leaves the entry of the properties interface as it
\* is and adds only the new Interface.
C10_InstalledOnce ==
    [][\A t \in Threads :
          (/\ tpc[t] = "ready" /\ tpc'[t] = "ready"
           /\ tnode'[t] # tnode[t]
           /\ HasPropertyIface(tnode[t])
           /\ \E i \in DOMAIN tnode'[t].ifaces :
                 /\ tnode'[t].ifaces[i].id = nextId
                 /\ DOMAIN tnode'[t].ifaces[i].properties # {})
          => /\ PropertiesName \in DOMAIN tnode[t].ifaces
             /\ tnode'[t].ifaces[PropertiesName] = tnode[t].ifaces[PropertiesName]
      ]_vars

\* --------------------------------------------------------- claims: dispatch
\* The message of the last Tree::handle call is a method call to a path of the tree.
CallToNode ==
    /\ hmsg[1].mtype = "MethodCall"
    /\ hmsg[1].path # None
    /\ hmsg[1].path[1] \in DOMAIN tree

\* C3: Tree::handle returns None, with no handler invoked and no reply produced,
\* for a message that is not a method call and for a method call whose path has no
\* node; for a method call whose path has a node it returns Some(list).
C3_NoneIffNotMine ==
    hmsg # None =>
        IF CallToNode
        THEN Len(hret) = 1
        ELSE hret = None /\ hcalled = <<>> /\ hnode = None

\* C3 witness: a method call to a path that has no node, while another path has
\* one, returned None.
C3_Witness ==
    /\ hmsg # None
    /\ hmsg[1].mtype = "MethodCall"
    /\ hmsg[1].path # None
    /\ hmsg[1].path[1] \notin DOMAIN tree
    /\ DOMAIN tree # {}
    /\ hret = None

TargetNode == tree[hmsg[1].path[1]]

\* C5: for a method call to a node, an interface that the node does not have gives
\* NoSuchInterface whatever the member is, and a member that is no method of the
\* node's interface gives NoSuchMethod; no method handler is invoked in either case.
C5_UnknownIfaceOrMethod ==
    (hmsg # None /\ CallToNode) =>
        LET m == hmsg[1]
            o == TargetNode
        IN  IF m.iface = None \/ m.iface[1] \notin DOMAIN o.ifaces
            THEN /\ hnode = Some(Err(no_interface("")))
                 /\ hcalled = <<>>
            ELSE (m.member = None \/ m.member[1] \notin DOMAIN o.ifaces[m.iface[1]].methods)
                 => /\ hnode = Some(Err(no_method("")))
                    /\ hcalled = <<>>

\* C5 witness: a call of a member the node's interface does not have gave
\* NoSuchMethod.
C5_Witness ==
    /\ hmsg # None /\ CallToNode
    /\ hmsg[1].iface # None
    /\ hmsg[1].iface[1] \in DOMAIN TargetNode.ifaces
    /\ hmsg[1].member = Some("Missing")
    /\ hnode = Some(Err(no_method("")))
    /\ hret = Some(<<error_reply(hmsg[1], "NoSuchMethod", "")>>)

\* ----------------------------------------------------------- claims: server
\* Positions of the log entries of one kind.
LogAt(op) == {i \in 1..Len(slog) : slog[i].op = op}

\* The entry is the pull of a method call that Tree::handle answered with a list.
HandledPull(i) ==
    /\ IsMethodCallItem(slog[i].item)
    /\ i < Len(slog) /\ slog[i + 1].op = "handle" /\ slog[i + 1].ret # None

\* The items of the entries of one kind, in the order of the log.
YieldedItems == [j \in 1..Cardinality(LogAt("yield")) |->
                    slog[CHOOSE i \in LogAt("yield") :
                            Cardinality({k \in LogAt("yield") : k <= i}) = j].item]
PassedPulls == {i \in LogAt("pull") : ~HandledPull(i)}
PassedItems == [j \in 1..Cardinality(PassedPulls) |->
                   slog[CHOOSE i \in PassedPulls :
                           Cardinality({k \in PassedPulls : k <= i}) = j].item]

\* C6: the TreeServer yields exactly the pulled items that are no method call or
\* for which Tree::handle returned None, unchanged and in their order; for a method
\* call that Tree::handle answered, every reply of the list is given to send, in
\* order, before the next item is pulled, and the item is not yielded.
C6_PassThrough ==
    /\ YieldedItems = PassedItems
    /\ \A i \in LogAt("pull") :
          /\ IsMethodCallItem(slog[i].item) => i < Len(slog) /\ slog[i + 1].op = "handle"
          /\ IF HandledPull(i)
             THEN LET v == slog[i + 1].ret[1] IN
                  /\ Len(slog) >= i + 1 + Len(v)
                  /\ \A j \in 1..Len(v) :
                        slog[i + 1 + j].op = "send" /\ slog[i + 1 + j].msg = v[j]
                  /\ Len(slog) > i + 1 + Len(v) => slog[i + 2 + Len(v)].op = "pull"
             ELSE \E k \in {i + 1, i + 2} :
                     /\ k <= Len(slog)
                     /\ slog[k] = [op |-> "yield", item |-> slog[i].item]
                     /\ \A x \in (i + 1)..(k - 1) : slog[x].op = "handle"
    /\ \A i \in LogAt("send") : \E p \in LogAt("pull") :
          HandledPull(p) /\ p + 1 < i /\ i <= p + 1 + Len(slog[p + 1].ret[1])

\* C6 witness: a handled call with two replies was followed by a signal; only the
\* signal was yielded.
C6_Witness ==
    /\ Len(slog) = 6
    /\ HandledPull(1)
    /\ slog[3].op = "send" /\ slog[4].op = "send"
    /\ slog[5].op = "pull" /\ slog[5].item # None /\ slog[5].item[1].kind = "Signal"
    /\ slog[6].op = "yield"
    /\ Len(YieldedItems) = 1

\* ------------------------------------------------- claims: unregistration
\* The set_registered(enable = false) call has returned.
DisableReturned == spc = "returned" /\ ~sarg

\* C11: set_registered(enable = false) calls unregister_path once for every path
\* of the tree, in iteration order, whether or not an unregistration has failed,
\* makes no other call on the connection, and returns Ok.
C11_DisableUnregistersAll ==
    /\ (spc = "loop" /\ ~sarg) =>
          /\ Len(connlog) + Len(skeys) = Len(TreeKeys)
          /\ \A i \in 1..Len(connlog) :
                connlog[i].op = "unregister" /\ connlog[i].path = TreeKeys[i]
    /\ DisableReturned =>
          /\ sresult = [ok |-> TRUE, err |-> NoVal]
          /\ Len(connlog) = Len(TreeKeys)
          /\ \A i \in 1..Len(connlog) :
                connlog[i].op = "unregister" /\ connlog[i].path = TreeKeys[i]

\* C11 witness: the unregistration of the first of three paths failed, the other
\* two paths were unregistered after it, and the call returned Ok.
C11_Witness ==
    /\ DisableReturned /\ sresult.ok
    /\ Len(connlog) = 3
    /\ ~connlog[1].ret.ok /\ connlog[2].ret.ok /\ connlog[3].ret.ok

\* ------------------------------------------- claims: the tree and the connection
\* C12: Tree::add and Tree::remove change the path-to-node map and make no call on
\* the connection: the set of registered paths is the same after them, so a path
\* removed from a registered tree stays registered and a path added to it is not
\* registered.
C12_TreeChangeKeepsRegistered ==
    [][(tree' # tree) =>
          /\ registered' = registered
          /\ connlog' = connlog
          /\ \A p \in DOMAIN tree \ DOMAIN tree' : p \in registered => p \in registered'
          /\ \A p \in DOMAIN tree' \ DOMAIN tree : p \notin registered => p \notin registered'
      ]_vars

\* C12 witness: after a set_registered(true) call that returned Ok, a path was
\* removed from the tree and is still registered, and a path was added to the tree
\* and is not registered.
C12_Witness ==
    /\ spc = "idle" /\ ncalls = 1 /\ sarg /\ sresult.ok
    /\ \E p \in registered : p \notin DOMAIN tree
    /\ \E p \in DOMAIN tree : p \notin registered

\* ------------------------------------------------ claims: the retried registration
\* The registration that failed in a log of a set_registered(true) call.
FailedEntry(log) ==
    log[CHOOSE k \in 1..Len(log) : log[k].op = "register" /\ ~log[k].ret.ok]

\* The paths a set_registered(true) call registered, from its log.
RegisteredIn(log) ==
    {log[i].path : i \in {j \in 1..Len(log) : log[j].op = "register" /\ log[j].ret.ok}}

\* A set_registered(true) call has returned that was made after a failed one, with
\* the node of the failing path removed from the tree in between; the bus held none
\* of the remaining paths before the failed call, and it refuses none of them on
\* its own in this call.
RetryReturned ==
    /\ EnableReturned /\ prev # <<>>
    /\ DOMAIN tree = prev[1].keys \ {FailedEntry(prev[1].log).path}
    /\ DOMAIN tree \cap (prev[1].regd \ RegisteredIn(prev[1].log)) = {}
    /\ \A i \in 1..Len(connlog) :
          (connlog[i].op = "register" /\ ~connlog[i].ret.ok)
              => connlog[i].ret.err.name # "Failed"

\* C13: the call made after a failed set_registered(true), with the failing node
\* removed, returns Ok; it has registered every remaining path of the tree once,
\* none being blocked by a registration the failed call left behind.
C13_RetrySucceeds ==
    RetryReturned =>
        /\ sresult = [ok |-> TRUE, err |-> NoVal]
        /\ connlog = [i \in 1..Len(TreeKeys) |->
                         [op |-> "register", path |-> TreeKeys[i],
                          ret |-> [ok |-> TRUE, err |-> NoVal]]]
        /\ DOMAIN tree \subseteq registered

\* C13 witness: the failed call had registered and rolled back a path that the
\* retry, made without the failing node, registered again along with another.
C13_Witness ==
    /\ RetryReturned /\ sresult.ok
    /\ Len(connlog) = 2
    /\ RegisteredIn(prev[1].log) \cap DOMAIN tree # {}

\* --------------------------------------------- claims: children and introspection
\* B's path is the parent's path, then "/", then a remainder, which for a direct
\* child holds no further "/".
ChildByPath(P, B, direct_only) ==
    /\ Len(B) >= Len(P) + 1
    /\ SubSeq(B, 1, Len(P) + 1) = P \o <<"/">>
    /\ direct_only => \A j \in (Len(P) + 2)..Len(B) : B[j] # "/"

\* C15: Tree::children(A, direct_only) holds a node B of the tree, once, exactly
\* when B's path is A's path followed by "/" and a remainder, the remainder of a
\* direct child having no further "/"; so A is not its own child, and a node whose
\* path only has A's path as a string prefix is none.
C15_ChildrenByPath ==
    (query # None /\ query[1].op = "children") =>
        LET r == query[1] IN
        /\ \A B \in DOMAIN tree :
              (\E j \in 1..Len(r.ret) : r.ret[j] = B)
                  <=> ChildByPath(r.node.name, B, r.direct_only)
        /\ \A j \in 1..Len(r.ret) : r.ret[j] \in DOMAIN tree /\ r.ret[j] # r.node.name
        /\ \A i, j \in 1..Len(r.ret) : r.ret[i] = r.ret[j] => i = j

\* C15 witness: in the tree of all paths the direct children of /a are /a/b alone,
\* neither /a nor /ab nor the grandchild /a/b/a.
C15_Witness ==
    /\ query # None /\ query[1].op = "children"
    /\ DOMAIN tree = QueryPaths
    /\ query[1].node.name = PathA /\ query[1].direct_only
    /\ query[1].ret = <<PathAB>>

\* Position of the kinds of elements within an interface element.
TagRank(tag) ==
    CASE tag = "method" -> 1 [] tag = "property" -> 2 [] tag = "signal" -> 3
      [] tag = "annotation" -> 4

\* The names of the elements of one kind in a sequence of elements.
NamesOf(e, tag) == {e[j].name : j \in {x \in 1..Len(e) : e[x].tag = tag}}

\* The element lists the members of the interface, each once: the methods, then
\* the properties, then the signals, then the annotations.
InterfaceElement(el, i) ==
    LET e == el.contents IN
    /\ \A x, y \in 1..Len(e) : x < y => TagRank(e[x].tag) <= TagRank(e[y].tag)
    /\ NamesOf(e, "method") = DOMAIN i.methods
    /\ NamesOf(e, "property") = DOMAIN i.properties
    /\ NamesOf(e, "signal") = i.signals
    /\ NamesOf(e, "annotation") = DOMAIN i.anns
    /\ Len(e) = Cardinality(DOMAIN i.methods) + Cardinality(DOMAIN i.properties)
                   + Cardinality(i.signals) + Cardinality(DOMAIN i.anns)

\* C14: the document of a node is the node element with the node's path, holding
\* first one interface element for each interface of the node (its methods, then
\* its properties, then its signals, then its annotations) and then one child
\* element for each node of the tree that is a direct child, and for no other; the
\* name of a child element is the child's path after the node's path and the "/".
C14_IntrospectDocument ==
    (query # None /\ query[1].op = "introspect") =>
        LET o == query[1].node
            doc == query[1].ret
            c == doc.contents
            I == {j \in 1..Len(c) : c[j].tag = "interface"}
            K == {j \in 1..Len(c) : c[j].tag = "node"}
            D == {B \in DOMAIN tree : ChildByPath(o.name, B, TRUE)}
        IN  /\ doc.tag = "node" /\ doc.name = o.name
            /\ I \cup K = 1..Len(c)
            /\ \A i \in I, k \in K : i < k
            /\ {c[i].name : i \in I} = DOMAIN o.ifaces
            /\ Cardinality(I) = Cardinality(DOMAIN o.ifaces)
            /\ \A i \in I : InterfaceElement(c[i], o.ifaces[c[i].name])
            /\ {c[k].name : k \in K} = {SubSeq(B, Len(o.name) + 2, Len(B)) : B \in D}
            /\ Cardinality(K) = Cardinality(D)

\* C14 witness: the document of /a/b in the tree of all paths has the elements of
\* its four interfaces, the deprecated one listing a method, a property, a signal
\* and an annotation, and then the one child element, named a.
C14_Witness ==
    /\ query # None /\ query[1].op = "introspect"
    /\ DOMAIN tree = QueryPaths
    /\ query[1].node.name = PathAB
    /\ Len(query[1].ret.contents) = 5
    /\ query[1].ret.contents[1].name = "com.example.legacy"
    /\ Len(query[1].ret.contents[1].contents) = 4
    /\ query[1].ret.contents[1].contents[4].tag = "annotation"
    /\ query[1].ret.contents[5] = [tag |-> "node", name |-> <<"a">>, contents |-> <<>>]

\* ------------------------------------------- claims: the properties interface
\* The last call ran the handler of a method of the cached properties interface.
PropsCalled(member) ==
    /\ hmsg # None
    /\ hcalled = <<[iface |-> PropertiesName, member |-> member]>>

\* The first argument of that call names an interface of the target node.
ArgIface == TargetNode.ifaces[hmsg[1].args[1]]
IfaceArgOnNode ==
    /\ Len(hmsg[1].args) >= 1
    /\ hmsg[1].args[1] \in DOMAIN TargetNode.ifaces

\* The second argument of that call names a property of that interface.
PropArgOnIface ==
    /\ Len(hmsg[1].args) >= 2
    /\ hmsg[1].args[2] \in DOMAIN ArgIface.properties

\* C16: Set for an interface and a property of the node checks that the property
\* can be written before the setter is invoked: for a property that cannot be
\* written the result is PropertyNotWritable and no setter is invoked; when the
\* write succeeds the list returned is the messages of the setter, in their order,
\* followed by one empty success reply, which is the last element.
C16_SetChecksThenWrites ==
    (PropsCalled("Set") /\ IfaceArgOnNode /\ PropArgOnIface) =>
        LET m == hmsg[1]
            pname == m.args[2]
            access == ArgIface.properties[pname]
        IN  /\ access = "read" =>
                  /\ hnode = Some(Err(not_writable(pname)))
                  /\ hused = <<>>
                  /\ hret = Some(<<error_reply(m, "PropertyNotWritable", pname)>>)
            /\ hused # <<>> =>
                  /\ access # "read"
                  /\ Len(hused) = 1
                  /\ hused[1].op = "set" /\ hused[1].iface = m.args[1]
                  /\ hused[1].prop = pname
            /\ hnode[1].ok =>
                  /\ Len(hused) = 1 /\ hused[1].ret.ok
                  /\ hret = Some(hnode[1].msgs)
                  /\ Len(hnode[1].msgs) = Len(hused[1].ret.msgs) + 1
                  /\ SubSeq(hnode[1].msgs, 1, Len(hused[1].ret.msgs)) = hused[1].ret.msgs
                  /\ hnode[1].msgs[Len(hnode[1].msgs)] = method_return(m, <<>>)

\* C16 witness: the setter of Volume returned a signal; Set returned the signal and
\* then the empty reply.
C16_Witness ==
    /\ PropsCalled("Set") /\ IfaceArgOnNode /\ PropArgOnIface
    /\ hmsg[1].args[2] = "Volume"
    /\ hnode[1].ok
    /\ hret = Some(<<signal_from(hmsg[1]), method_return(hmsg[1], <<>>)>>)

\* C17: Get for an interface of the node returns NoSuchProperty for a name that is
\* no property of the interface and PropertyNotReadable for a property that can
\* only be written, in both cases without a success reply and without invoking a
\* getter; a reply with the value is returned only for a property that exists and
\* can be read.
C17_GetErrors ==
    (PropsCalled("Get") /\ IfaceArgOnNode /\ Len(hmsg[1].args) >= 2) =>
        LET m == hmsg[1]
            pname == m.args[2]
            props == ArgIface.properties
        IN  /\ pname \notin DOMAIN props =>
                  /\ hnode = Some(Err(no_property(pname)))
                  /\ hused = <<>>
                  /\ hret = Some(<<error_reply(m, "NoSuchProperty", pname)>>)
            /\ (pname \in DOMAIN props /\ props[pname] = "write") =>
                  /\ hnode = Some(Err(not_readable(pname)))
                  /\ hused = <<>>
                  /\ hret = Some(<<error_reply(m, "PropertyNotReadable", pname)>>)
            /\ hnode[1].ok =>
                  /\ pname \in DOMAIN props /\ props[pname] # "write"
                  /\ hused = <<Invoked("get", ArgIface, pname, hused[1].ret)>>
                  /\ hused[1].ret.ok
                  /\ hret = Some(<<method_return(m, hused[1].ret.msgs)>>)
                  /\ hused[1].ret.msgs = <<[variant |-> <<m.args[1], pname>>]>>

\* C17 witness: Get of the write-only property Secret returned PropertyNotReadable.
C17_Witness ==
    /\ PropsCalled("Get") /\ IfaceArgOnNode
    /\ hmsg[1].args = <<"com.example.echo", "Secret">>
    /\ hret = Some(<<error_reply(hmsg[1], "PropertyNotReadable", "Secret")>>)
    /\ hused = <<>>

\* The properties of the interface that can be read.
ReadableProps(i) == {q \in DOMAIN i.properties : i.properties[q] # "write"}

C19_SendFailureSwallowed ==
    \A i \in LogAt("send") : ~slog[i].ok =>
        \E p \in LogAt("pull") :
            /\ HandledPull(p)
            /\ LET v == slog[p + 1].ret[1]
                   end == p + 1 + Len(v)
               IN  /\ p + 1 < i /\ i <= end /\ end <= Len(slog)
                   /\ \A j \in 1..Len(v) :
                         slog[p + 1 + j].op = "send" /\ slog[p + 1 + j].msg = v[j]
                   /\ Len(slog) > end => slog[end + 1].op = "pull"
                   /\ \A q \in LogAt("pull") : q > end =>
                         IF HandledPull(q)
                         THEN \A j \in 1..Len(slog[q + 1].ret[1]) :
                                 /\ q + 1 + j <= Len(slog)
                                 /\ slog[q + 1 + j].op = "send"
                                 /\ slog[q + 1 + j].msg = slog[q + 1].ret[1][j]
                         ELSE \E k \in {q + 1, q + 2} :
                                 /\ k <= Len(slog)
                                 /\ slog[k] = [op |-> "yield", item |-> slog[q].item]

\* C19 witness: the first of the two sends of a handled call failed, the second
\* reply was sent, and the signal pulled next was yielded.
C19_Witness ==
    /\ Len(slog) = 6
    /\ HandledPull(1)
    /\ slog[3].op = "send" /\ ~slog[3].ok
    /\ slog[4].op = "send" /\ slog[4].msg = slog[2].ret[1][2]
    /\ slog[5].op = "pull" /\ slog[6].op = "yield" /\ slog[6].item = slog[5].item

\* ------------------------------------- claims: the shared handlers and the node
\* C20: the handler of the shared introspection interface renders the document of
\* the node the call was dispatched to: its path, its interfaces and its direct
\* children in the tree; the handlers of the shared properties interface look the
\* interface and the property up on the node the call was dispatched to.
C20_HandlersUseTargetNode ==
    /\ (hmsg # None /\ hcalled = <<[iface |-> IntrospectableName, member |-> "Introspect"]>>) =>
          /\ hnode[1].ok
          /\ Len(hret[1]) = 1 /\ Len(hret[1][1].body) = 1
          /\ LET doc == hret[1][1].body[1]
                 c == doc.contents
                 N == TargetNode
             IN  /\ doc.name = hmsg[1].path[1]
                 /\ NamesOf(c, "interface") = DOMAIN N.ifaces
                 /\ NamesOf(c, "node") =
                       {SubSeq(B, Len(N.name) + 2, Len(B)) :
                           B \in {K \in DOMAIN tree : ChildByPath(N.name, K, TRUE)}}
    /\ \A member \in {"Get", "GetAll", "Set"} :
          (PropsCalled(member) /\ Len(hmsg[1].args) >= 1 /\ ValidIfaceName(hmsg[1].args[1])) =>
              /\ hnode[1] = Err(no_interface(hmsg[1].args[1])) <=> ~IfaceArgOnNode
              /\ \A j \in 1..Len(hused) :
                    /\ hused[j].iface \in DOMAIN TargetNode.ifaces
                    /\ hused[j].prop \in DOMAIN TargetNode.ifaces[hused[j].iface].properties

\* C20 witness: Introspect was dispatched to /a/b while /a, whose introspectable()
\* call built the shared interface, is in the tree; the document is that of /a/b.
C20_Witness ==
    /\ hmsg # None
    /\ hcalled = <<[iface |-> IntrospectableName, member |-> "Introspect"]>>
    /\ hmsg[1].path = Some(PathAB)
    /\ PathA \in DOMAIN tree
    /\ TargetNode.ifaces[IntrospectableName].id = tree[PathA].ifaces[IntrospectableName].id
    /\ hret[1][1].body[1].name = PathAB
    /\ "com.example.legacy" \in NamesOf(hret[1][1].body[1].contents, "interface")

====
